---- MODULE Spec2Model ----
(***************************************************************************)
(* Discrete-event batch-serving simulator of exp/dynamic_batch_size/main.py *)
(* (the event loop of the __main__ block, Request, fetch_new_requests and   *)
(* drop_requests).  One action per step of a loop iteration; pc is the      *)
(* position of the loop.  Times are integers; slo_factor is the rational    *)
(* slo_factor / SloDen so that factors below 1 are representable.           *)
(* SortedQueue and the scheduler classes are imported by main.py; they are  *)
(* modelled from their documented interface.                                *)
(***************************************************************************)
EXTENDS Integers, Sequences, FiniteSets, TLC

\* ---------------------------------------------------------------- bounds
MaxReqs == 2        \* number of requests of the loaded trace
MaxArrival == 1     \* arrival times are drawn from 0..MaxArrival
MaxWake == 2        \* a finite wakeup returned by schedule is now+1..now+MaxWake
MaxBatch == 2       \* args.max_batch_size, and the largest profiled batch size
MaxTime == 60       \* cap on a finite wakeup time

\* ---------------------------------------------------------------- constants
Inf == 100000       \* math.inf
None == -1          \* Python None in a numeric field
SloDen == 2         \* slo_factor values are multiples of 1/SloDen

Ids == 1..MaxReqs
SloFactors == {1, 2, 4}     \* 0.5, 1.0, 2.0

\* batch_runtimes: batch size -> runtime, e.g. {1: 10, 2: 15}
batch_runtimes == [b \in 1..MaxBatch |-> 5 * (b + 1)]

VARIABLES
    reqs,               \* id -> Request object
    future_requests,    \* SortedQueue of ids (by arrival_time)
    queue,              \* SortedQueue of ids (by deadline)
    current_batch,      \* SortedQueue of ids
    finished_requests,  \* list of ids
    current_time,
    batch_finish_time,
    next_check_time,
    event,
    drop_reqs,          \* result of the last drop_requests call
    new_reqs,           \* result of the last fetch_new_requests call
    preemption,         \* args.preemption
    args,               \* the other command-line arguments
    invoked,            \* policy entry points invoked in this iteration
    failure,            \* the exception that ended the run, or "none"
    pc

vars == <<reqs, future_requests, queue, current_batch, finished_requests,
          current_time, batch_finish_time, next_check_time, event,
          drop_reqs, new_reqs, preemption, args, invoked, failure, pc>>

\* ---------------------------------------------------------------- helpers
Range(s) == {s[i] : i \in 1..Len(s)}

Min2(a, b) == IF a <= b THEN a ELSE b

Min3(a, b, c) == Min2(a, Min2(b, c))

\* Request.__init__
NewRequest(arrival_time, id, slo_factor) ==
    [arrival_time |-> arrival_time,
     id |-> id,
     queue_time |-> None,
     dropped_time |-> None,
     execution_time |-> None,
     finish_time |-> None,
     batch_size |-> None,
     slo_factor |-> slo_factor,
     deadline |-> arrival_time + (slo_factor * batch_runtimes[1]) \div SloDen]

\* mutant of Request.schedule: queue_time is the scheduling instant itself
RequestSchedule_AbsoluteQueueTime(r, now, bsize, batch_runtime) ==
    [r EXCEPT !.queue_time = now,
              !.batch_size = bsize,
              !.execution_time = batch_runtime,
              !.finish_time = now + batch_runtime]

\* Request.schedule
RequestSchedule(r, now, bsize, batch_runtime) ==
    [r EXCEPT !.queue_time = now - r.arrival_time,
              !.batch_size = bsize,
              !.execution_time = batch_runtime,
              !.finish_time = now + batch_runtime]

\* mutant of Request.preempt: finish_time is not reset
RequestPreempt_KeepsFinishTime(r) ==
    [r EXCEPT !.queue_time = None,
              !.batch_size = None,
              !.execution_time = None]

\* Request.preempt
RequestPreempt(r) ==
    [r EXCEPT !.queue_time = None,
              !.batch_size = None,
              !.execution_time = None,
              !.finish_time = None]

\* mutant of Request.get_dropped: the drop instant overwrites the deadline
RequestGetDropped_OverwritesDeadline(r, now) ==
    [r EXCEPT !.dropped_time = now, !.deadline = now]

\* Request.get_dropped
RequestGetDropped(r, now) == [r EXCEPT !.dropped_time = now]

\* SortedQueue.append: insert keeping the container ordered by key k
\* (after the elements with an equal key)
SQAppend(q, id, k) ==
    LET pos == Cardinality({i \in 1..Len(q) : k[q[i]] <= k[id]})
    IN SubSeq(q, 1, pos) \o <<id>> \o SubSeq(q, pos + 1, Len(q))

RECURSIVE SQAppendAll(_, _, _)
SQAppendAll(q, ids, k) ==
    IF ids = <<>> THEN q
    ELSE SQAppendAll(SQAppend(q, Head(ids), k), Tail(ids), k)

\* SortedQueue.pop: remove the minimum (the head)
SQPop(q) == Tail(q)

SQRemove(q, S) == SelectSeq(q, LAMBDA x : x \notin S)

SQSelect(q, S) == SelectSeq(q, LAMBDA x : x \in S)

ArrivalKey(rs) == [i \in Ids |-> rs[i].arrival_time]

DeadlineKey(rs) == [i \in Ids |-> rs[i].deadline]

IdSeq == [i \in 1..MaxReqs |-> i]

\* ---------------------------------------------------------------- Init
Init ==
    /\ \E arr \in [Ids -> 0..MaxArrival], slo \in [Ids -> SloFactors] :
          \* the ids number the arrivals of the trace in chronological order
          /\ \A i, j \in Ids : i <= j => arr[i] <= arr[j]
          /\ reqs = [i \in Ids |-> NewRequest(arr[i], i, slo[i])]
    /\ future_requests = SQAppendAll(<<>>, IdSeq, ArrivalKey(reqs))
    /\ current_time = reqs[future_requests[1]].arrival_time
    /\ queue = <<>>
    /\ current_batch = <<>>
    /\ finished_requests = <<>>
    /\ batch_finish_time = Inf
    /\ next_check_time = Inf
    /\ event = "new reqs arrived"
    /\ drop_reqs = <<>>
    /\ new_reqs = <<>>
    /\ preemption \in BOOLEAN
    /\ args = [slo_factor |-> 5 * SloDen, max_batch_size |-> MaxBatch,
               offline_num_reqs |-> 0, slo_csv |-> TRUE]
    /\ invoked = {}
    /\ failure = "none"
    /\ pc = "classify"

\* ---------------------------------------------------------------- steps
\* mutant of the event classification: a non-empty batch is never due
ClassifyEvent_NeverFinished(batch, now, bft) ==
    IF Len(batch) = 0 THEN "new reqs arrived" ELSE "check preemption"

\* event classification at the top of an iteration
ClassifyEvent(batch, now, bft) ==
    IF Len(batch) = 0 THEN "new reqs arrived"
    ELSE IF now = bft THEN "batch finished"
    ELSE "check preemption"

Classify ==
    /\ pc = "classify"
    /\ event' = ClassifyEvent(current_batch, current_time, batch_finish_time)
    /\ invoked' = {}
    /\ pc' = "drop"
    /\ UNCHANGED <<reqs, future_requests, queue, current_batch,
                   finished_requests, current_time, batch_finish_time,
                   next_check_time, drop_reqs, new_reqs, preemption, args, failure>>

\* mutant of the loop test of drop_requests: non-strict comparison
DropTest_NonStrict(deadline, now) == deadline <= now + batch_runtimes[1]

\* the loop test of drop_requests
DropTest(deadline, now) == deadline < now + batch_runtimes[1]

\* drop_requests: pop the head of the waiting container while it fails the test
RECURSIVE DropLoop(_, _, _, _, _)
DropLoop(now, q, fin, rs, dropped) ==
    IF Len(q) > 0 /\ DropTest(rs[q[1]].deadline, now)
    THEN DropLoop(now, SQPop(q), Append(fin, q[1]),
                  [rs EXCEPT ![q[1]] = RequestGetDropped(@, now)],
                  Append(dropped, q[1]))
    ELSE [queue |-> q, finished_requests |-> fin, reqs |-> rs,
          dropped_reqs |-> dropped]

\* mutant of drop_requests: the dropped requests are recorded but stay in
\* the waiting container
drop_requests_NoPop(now, q, fin, rs) ==
    LET late == SelectSeq(q, LAMBDA i : DropTest(rs[i].deadline, now))
    IN [queue |-> q, finished_requests |-> fin \o late,
        reqs |-> [i \in Ids |-> IF i \in Range(late)
                                THEN RequestGetDropped(rs[i], now)
                                ELSE rs[i]],
        dropped_reqs |-> late]

drop_requests(now, q, fin, rs) == DropLoop(now, q, fin, rs, <<>>)

DropRequests ==
    /\ pc = "drop"
    /\ LET r == drop_requests(current_time, queue, finished_requests, reqs)
       IN /\ queue' = r.queue
          /\ finished_requests' = r.finished_requests
          /\ reqs' = r.reqs
          /\ drop_reqs' = r.dropped_reqs
    /\ pc' = "fetch"
    /\ UNCHANGED <<future_requests, current_batch, current_time,
                   batch_finish_time, next_check_time, event, new_reqs,
                   preemption, args, invoked, failure>>

\* mutant of the loop test of fetch_new_requests: strict comparison
FetchTest_Strict(arrival_time, now) == arrival_time < now

\* the loop test of fetch_new_requests
FetchTest(arrival_time, now) == arrival_time <= now

\* fetch_new_requests: pop the head of future_requests while it has arrived
RECURSIVE FetchLoop(_, _, _, _, _)
FetchLoop(now, fut, q, rs, fetched) ==
    IF Len(fut) > 0 /\ FetchTest(rs[fut[1]].arrival_time, now)
    THEN FetchLoop(now, SQPop(fut), SQAppend(q, fut[1], DeadlineKey(rs)), rs,
                   Append(fetched, fut[1]))
    ELSE [future_requests |-> fut, queue |-> q, new_reqs |-> fetched]

fetch_new_requests(now, fut, q, rs) == FetchLoop(now, fut, q, rs, <<>>)

FetchNewRequests ==
    /\ pc = "fetch"
    /\ LET r == fetch_new_requests(current_time, future_requests, queue, reqs)
       IN /\ future_requests' = r.future_requests
          /\ queue' = r.queue
          /\ new_reqs' = r.new_reqs
    /\ pc' = "preempt"
    /\ UNCHANGED <<reqs, current_batch, finished_requests, current_time,
                   batch_finish_time, next_check_time, event, drop_reqs,
                   preemption, args, invoked, failure>>

\* mutant of the guard of the preemption step: args.preemption is ignored
DoCheckPreemption_IgnoresFlag(ev, pre) == ev = "check preemption"

\* the guard of the preemption step
DoCheckPreemption(ev, pre) == ev = "check preemption" /\ pre

\* scheduler.preempt: pulls the requests of Out back to the waiting container
\* (Request.preempt) and promotes the requests of In (Request.schedule);
\* reports whether the composition of the batch changed
PolicyPreempt(batch, q, rs, now, Out, In) ==
    LET batch1 == SQAppendAll(SQRemove(batch, Out), SQSelect(q, In),
                              DeadlineKey(rs))
        queue1 == SQAppendAll(SQRemove(q, In), SQSelect(batch, Out),
                              DeadlineKey(rs))
        B == Len(batch1)
        rs1 == [i \in Ids |->
                  IF i \in Out THEN RequestPreempt(rs[i])
                  ELSE IF i \in In
                       THEN RequestSchedule(rs[i], now, B, batch_runtimes[B])
                       ELSE rs[i]]
    IN [current_batch |-> batch1, queue |-> queue1, reqs |-> rs1,
        do_preemption |-> (Out \cup In) # {}]

PreemptionStep ==
    /\ pc = "preempt"
    /\ IF DoCheckPreemption(event, preemption)
       THEN \E Out \in SUBSET Range(current_batch), In \in SUBSET Range(queue) :
              /\ Len(current_batch) - Cardinality(Out) + Cardinality(In)
                    <= args.max_batch_size
              /\ LET r == PolicyPreempt(current_batch, queue, reqs,
                                        current_time, Out, In)
                 IN /\ current_batch' = r.current_batch
                    /\ queue' = r.queue
                    /\ reqs' = r.reqs
                    /\ invoked' = invoked \cup {"preempt"}
                    /\ IF r.do_preemption
                       THEN IF Len(r.current_batch) \in DOMAIN batch_runtimes
                            THEN /\ batch_finish_time' = current_time
                                       + batch_runtimes[Len(r.current_batch)]
                                 /\ pc' = "drain"
                                 /\ failure' = failure
                            ELSE \* batch_runtimes[0]: KeyError
                                 /\ batch_finish_time' = batch_finish_time
                                 /\ pc' = "crashed"
                                 /\ failure' = "KeyError"
                       ELSE /\ batch_finish_time' = batch_finish_time
                            /\ pc' = "drain"
                            /\ failure' = failure
       ELSE /\ pc' = "drain"
            /\ UNCHANGED <<reqs, queue, current_batch, batch_finish_time,
                           invoked, failure>>
    /\ UNCHANGED <<future_requests, finished_requests, current_time,
                   next_check_time, event, drop_reqs, new_reqs, preemption, args>>

\* mutant of the drain assertion: finish_time is not checked
FirstMismatch_Unchecked(batch, rs, now) == 0

\* index of the first member of the batch whose finish_time is not now
\* (0 when there is none)
FirstMismatch(batch, rs, now) ==
    LET bad == {i \in 1..Len(batch) : rs[batch[i]].finish_time # now}
    IN IF bad = {} THEN 0
       ELSE CHOOSE i \in bad : \A j \in bad : i <= j

\* mutant of the drain loop: the drained requests are appended to the
\* finished history but the last one is left in the batch
DrainBatch_LeavesLast(batch, fin, rs, now) ==
    LET k == FirstMismatch(batch, rs, now)
    IN IF k = 0
       THEN [current_batch |-> <<batch[Len(batch)]>>,
             finished_requests |-> fin \o batch,
             ok |-> TRUE]
       ELSE [current_batch |-> SubSeq(batch, k + 1, Len(batch)),
             finished_requests |-> fin \o SubSeq(batch, 1, k - 1),
             ok |-> FALSE]

\* the drain loop of the BATCH_FINISHED branch: pop, assert, append
DrainBatch(batch, fin, rs, now) ==
    LET k == FirstMismatch(batch, rs, now)
    IN IF k = 0
       THEN [current_batch |-> <<>>, finished_requests |-> fin \o batch,
             ok |-> TRUE]
       ELSE [current_batch |-> SubSeq(batch, k + 1, Len(batch)),
             finished_requests |-> fin \o SubSeq(batch, 1, k - 1),
             ok |-> FALSE]

\* mutant of the reset after the drain: batch_finish_time is left as it was
FinishTimeAfterDrain_Stale(bft) == bft

\* batch_finish_time after the drain
FinishTimeAfterDrain(bft) == Inf

BatchFinishedStep ==
    /\ pc = "drain"
    /\ IF event = "batch finished"
       THEN LET r == DrainBatch(current_batch, finished_requests, reqs,
                                current_time)
            IN /\ current_batch' = r.current_batch
               /\ finished_requests' = r.finished_requests
               /\ IF r.ok
                  THEN /\ batch_finish_time' =
                             FinishTimeAfterDrain(batch_finish_time)
                       /\ pc' = "schedule"
                       /\ failure' = failure
                  ELSE /\ batch_finish_time' = batch_finish_time
                       /\ pc' = "crashed"
                       /\ failure' = "finish_time assertion"
       ELSE /\ pc' = "schedule"
            /\ UNCHANGED <<current_batch, finished_requests,
                           batch_finish_time, failure>>
    /\ UNCHANGED <<reqs, future_requests, queue, current_time,
                   next_check_time, event, drop_reqs, new_reqs, preemption, args,
                   invoked>>

\* the wakeup times scheduler.schedule may return when called at now
WakeChoices(now) ==
    {Inf} \cup {now + d : d \in {e \in 1..MaxWake : now + e <= MaxTime}}

\* scheduler.schedule: moves the requests of S from the waiting container
\* into the (empty) batch
PolicySchedule(batch, q, rs, S) ==
    [current_batch |-> SQAppendAll(batch, SQSelect(q, S), DeadlineKey(rs)),
     queue |-> SQRemove(q, S)]

\* the engine's part of the schedule step: stamp every member of the batch
StampBatch(batch, rs, now) ==
    [i \in Ids |->
       IF i \in Range(batch)
       THEN RequestSchedule(rs[i], now, Len(batch), batch_runtimes[Len(batch)])
       ELSE rs[i]]

\* mutant of batch_finish_time of a fresh batch: the duration alone
ScheduledFinishTime_DurationOnly(now, duration) == duration

\* batch_finish_time of a freshly scheduled batch
ScheduledFinishTime(now, duration) == now + duration

ScheduleStep ==
    /\ pc = "schedule"
    /\ IF event # "check preemption"
       THEN \E S \in SUBSET Range(queue), w \in WakeChoices(current_time) :
              /\ Len(current_batch) + Cardinality(S) <= args.max_batch_size
              /\ LET r == PolicySchedule(current_batch, queue, reqs, S)
                 IN /\ next_check_time' = w
                    /\ current_batch' = r.current_batch
                    /\ queue' = r.queue
                    /\ invoked' = invoked \cup {"schedule"}
                    /\ IF Len(r.current_batch) > 0
                       THEN /\ batch_finish_time' =
                                  ScheduledFinishTime(current_time,
                                      batch_runtimes[Len(r.current_batch)])
                            /\ reqs' = StampBatch(r.current_batch, reqs,
                                                  current_time)
                       ELSE UNCHANGED <<batch_finish_time, reqs>>
       ELSE UNCHANGED <<next_check_time, current_batch, queue, invoked,
                        batch_finish_time, reqs>>
    /\ pc' = "termcheck"
    /\ UNCHANGED <<future_requests, finished_requests, current_time, event,
                   drop_reqs, new_reqs, preemption, args, failure>>

\* the test of the "trace finished" break
TraceFinished(fut, q, batch) ==
    Len(fut) = 0 /\ Len(q) = 0 /\ Len(batch) = 0

TerminationCheck ==
    /\ pc = "termcheck"
    /\ pc' = IF TraceFinished(future_requests, queue, current_batch)
             THEN "done" ELSE "advance"
    /\ UNCHANGED <<reqs, future_requests, queue, current_batch,
                   finished_requests, current_time, batch_finish_time,
                   next_check_time, event, drop_reqs, new_reqs, preemption, args,
                   invoked, failure>>

next_req_arrival_time ==
    IF Len(future_requests) > 0 THEN reqs[future_requests[1]].arrival_time
    ELSE Inf

\* mutant of the time advance: the next arrival is ignored
NextTime_IgnoresArrival(nct, bft, nrat) == Min2(nct, bft)

\* the new value of current_time
NextTime(nct, bft, nrat) == Min3(nct, bft, nrat)

AdvanceTime ==
    /\ pc = "advance"
    /\ IF batch_finish_time = Inf /\ next_check_time = Inf
          /\ next_req_arrival_time = Inf
       THEN /\ pc' = "crashed"
            /\ failure' = "deadlock assertion"
            /\ current_time' = current_time
       ELSE /\ current_time' = NextTime(next_check_time, batch_finish_time,
                                        next_req_arrival_time)
            /\ pc' = "classify"
            /\ failure' = failure
    /\ UNCHANGED <<reqs, future_requests, queue, current_batch,
                   finished_requests, batch_finish_time, next_check_time,
                   event, drop_reqs, new_reqs, preemption, args, invoked>>

Next ==
    \/ Classify
    \/ DropRequests
    \/ FetchNewRequests
    \/ PreemptionStep
    \/ BatchFinishedStep
    \/ ScheduleStep
    \/ TerminationCheck
    \/ AdvanceTime

Spec == Init /\ [][Next]_vars

\* ---------------------------------------------------------------- start-up
\* SLO factors of the rows of the SLO CSV file (0 is a non-positive factor)
CsvSloFactors == {0, 2, 4}

\* the command lines: slo_factor 0 or 1.0, max_batch_size 0 or MaxBatch,
\* online or offline with MaxReqs requests, with or without --slo-csv
ArgChoices ==
    [slo_factor : {0, SloDen}, max_batch_size : {0, MaxBatch},
     offline_num_reqs : {0, MaxReqs}, slo_csv : BOOLEAN]

\* the state of the module before __main__ runs
InitStartup ==
    /\ args \in ArgChoices
    /\ preemption \in BOOLEAN
    /\ reqs = <<>>
    /\ future_requests = <<>>
    /\ queue = <<>>
    /\ current_batch = <<>>
    /\ finished_requests = <<>>
    /\ current_time = 0
    /\ batch_finish_time = Inf
    /\ next_check_time = Inf
    /\ event = "new reqs arrived"
    /\ drop_reqs = <<>>
    /\ new_reqs = <<>>
    /\ invoked = {}
    /\ failure = "none"
    /\ pc = "validate"

\* the argument validation
ArgsValid(a) == a.slo_factor > 0 /\ a.max_batch_size > 0

ValidateArgs ==
    /\ pc = "validate"
    /\ IF ArgsValid(args)
       THEN pc' = "create" /\ failure' = failure
       ELSE pc' = "exited" /\ failure' = "exit(1)"
    /\ UNCHANGED <<reqs, future_requests, queue, current_batch,
                   finished_requests, current_time, batch_finish_time,
                   next_check_time, event, drop_reqs, new_reqs, preemption,
                   args, invoked>>

\* mutant of the arrival time of a new request: never coerced
CoerceArrival_Never(arrival_time, n) == arrival_time

\* the arrival time a request is created with: 0 in offline mode
CoerceArrival(arrival_time, n) == IF n = 0 THEN arrival_time ELSE 0

\* the test that selects the offline branch
OfflineMode(n) == n > 0

\* request creation (from the SLO CSV or from the trace with
\* args.slo_factor), initial current_time and the choice of the branch
CreateRequests ==
    /\ pc = "create"
    /\ \E arr \in [Ids -> 0..MaxArrival],
          slo \in [Ids -> IF args.slo_csv THEN CsvSloFactors
                                         ELSE {args.slo_factor}] :
          /\ \A i, j \in Ids : i <= j => arr[i] <= arr[j]
          /\ LET rs == [i \in Ids |->
                          NewRequest(CoerceArrival(arr[i],
                                                   args.offline_num_reqs),
                                     i, slo[i])]
                 fut == SQAppendAll(<<>>, IdSeq, ArrivalKey(rs))
             IN /\ reqs' = rs
                /\ future_requests' = fut
                /\ current_time' = rs[fut[1]].arrival_time
    /\ pc' = IF OfflineMode(args.offline_num_reqs) THEN "offline_fetch"
             ELSE "classify"
    /\ UNCHANGED <<queue, current_batch, finished_requests,
                   batch_finish_time, next_check_time, event, drop_reqs,
                   new_reqs, preemption, args, invoked, failure>>

\* the arrival gate of the offline branch (its result is discarded)
OfflineFetch ==
    /\ pc = "offline_fetch"
    /\ LET r == fetch_new_requests(current_time, future_requests, queue, reqs)
       IN /\ future_requests' = r.future_requests
          /\ queue' = r.queue
    /\ pc' = "offline_schedule"
    /\ UNCHANGED <<reqs, current_batch, finished_requests, current_time,
                   batch_finish_time, next_check_time, event, drop_reqs,
                   new_reqs, preemption, args, invoked, failure>>

\* scheduler.offline_schedule: consumes the whole waiting set; it runs the
\* requests batch after batch (stamping them) or records a request that
\* can no longer meet its deadline as dropped, and appends every one to
\* the finished history
RECURSIVE OfflineOutcomes(_, _, _, _, _)
OfflineOutcomes(q, fin, rs, t, maxb) ==
    IF q = <<>> THEN {[finished_requests |-> fin, reqs |-> rs]}
    ELSE UNION {
           LET members == SQSelect(q, S)
               B == Len(members)
               D == batch_runtimes[B]
               run == OfflineOutcomes(
                         SQRemove(q, S), fin \o members,
                         [i \in Ids |->
                            IF i \in S THEN RequestSchedule(rs[i], t, B, D)
                            ELSE rs[i]],
                         t + D, maxb)
               drop == IF \A i \in S : DropTest(rs[i].deadline, t)
                       THEN OfflineOutcomes(
                               SQRemove(q, S), fin \o members,
                               [i \in Ids |->
                                  IF i \in S THEN RequestGetDropped(rs[i], t)
                                  ELSE rs[i]],
                               t, maxb)
                       ELSE {}
           IN run \cup drop :
           S \in {X \in SUBSET Range(q) : X # {} /\ Cardinality(X) <= maxb}}

OfflineSchedule ==
    /\ pc = "offline_schedule"
    /\ \E o \in OfflineOutcomes(queue, finished_requests, reqs, current_time,
                                args.max_batch_size) :
          /\ finished_requests' = o.finished_requests
          /\ reqs' = o.reqs
    /\ queue' = <<>>
    /\ invoked' = invoked \cup {"offline_schedule"}
    /\ pc' = "offline_done"
    /\ UNCHANGED <<future_requests, current_batch, current_time,
                   batch_finish_time, next_check_time, event, drop_reqs,
                   new_reqs, preemption, args, failure>>

\* the whole program: start-up, then the offline branch or the event loop
NextStartup ==
    \/ ValidateArgs
    \/ CreateRequests
    \/ OfflineFetch
    \/ OfflineSchedule
    \/ Next

SpecStartup == InitStartup /\ [][NextStartup]_vars

\* the loop under weak fairness: an iteration step that can run does run
SpecFair == Spec /\ WF_vars(Next)

\* ---------------------------------------------------------------- typing
TypeOK ==
    /\ pc \in {"classify", "drop", "fetch", "preempt", "drain", "schedule",
               "termcheck", "advance", "done", "crashed", "validate",
               "create", "exited", "offline_fetch", "offline_schedule",
               "offline_done"}
    /\ event \in {"new reqs arrived", "batch finished", "check preemption"}
    /\ failure \in {"none", "KeyError", "finish_time assertion",
                    "deadlock assertion", "exit(1)"}
    /\ current_time \in 0..MaxTime + 100

\* ---------------------------------------------------------------- properties
Count(q, i) == Cardinality({k \in 1..Len(q) : q[k] = i})

Locations(i) ==
    Count(future_requests, i) + Count(queue, i) + Count(current_batch, i)
        + Count(finished_requests, i)

Running == pc # "crashed"

AllUnset(r) ==
    /\ r.queue_time = None
    /\ r.batch_size = None
    /\ r.execution_time = None
    /\ r.finish_time = None

AllSet(r) ==
    /\ r.queue_time # None
    /\ r.batch_size # None
    /\ r.execution_time # None
    /\ r.finish_time # None

EndOfIteration == pc \in {"termcheck", "advance", "done"}

\* C1: while the loop runs (at every step boundary and after a normal exit)
\* every request id is in exactly one of future_requests, queue,
\* current_batch and finished_requests, and occurs there once.
C1_ExactlyOneLocation ==
    Running => \A i \in Ids : Locations(i) = 1

\* C1 witness: one request completed and in the finished history while
\* another one is in flight
C1_Witness ==
    /\ pc = "termcheck"
    /\ Len(current_batch) > 0
    /\ \E i \in Range(finished_requests) : reqs[i].dropped_time = None

\* C2: a request is appended to the finished history at most once; a dropped
\* request is never in the batch and never drained, dropped_time is written
\* at most once, and drop_requests neither touches nor returns a member of
\* the in-flight batch.
C2_FinishedAtMostOnce ==
    /\ [](\A i \in Ids :
            /\ Count(finished_requests, i) <= 1
            /\ reqs[i].dropped_time # None =>
                  /\ Count(current_batch, i) = 0
                  /\ Count(finished_requests, i) = 1)
    /\ [][/\ \A i \in Ids :
               reqs[i].dropped_time # None =>
                  /\ reqs'[i].dropped_time = reqs[i].dropped_time
                  /\ finished_requests' # finished_requests =>
                        \A k \in Len(finished_requests) + 1
                                    ..Len(finished_requests') :
                            finished_requests'[k] # i
          /\ pc = "drop" =>
               \A i \in Range(current_batch) :
                  /\ reqs'[i] = reqs[i]
                  /\ i \notin Range(drop_reqs')]_vars

\* C2 witness: the finished history holds a dropped and a completed request
C2_Witness ==
    /\ \E i \in Range(finished_requests) : reqs[i].dropped_time # None
    /\ \E i \in Range(finished_requests) :
          reqs[i].dropped_time = None /\ reqs[i].finish_time # None

\* C3: every request the engine stamps in the schedule step at instant T
\* satisfies deadline >= T + duration(1).
C3_NeverScheduledWhenDroppable ==
    (pc = "termcheck" /\ "schedule" \in invoked) =>
        \A i \in Range(current_batch) :
            reqs[i].deadline >= current_time + batch_runtimes[1]

\* C4: drop_requests at time T removes exactly the requests of the waiting
\* container with deadline < T + duration(1), keeps the others in order,
\* stamps dropped_time = T on the removed ones only, appends them to the
\* finished history and returns them in removal order.
C4_DropExactlyLate ==
    [][pc = "drop" =>
         LET T == current_time
             late(i) == reqs[i].deadline < T + batch_runtimes[1]
             gone == SelectSeq(queue, late)
         IN /\ queue' = SelectSeq(queue, LAMBDA i : ~late(i))
            /\ drop_reqs' = gone
            /\ finished_requests' = finished_requests \o gone
            /\ \A i \in Ids :
                 reqs'[i] = IF i \in Range(gone)
                            THEN [reqs[i] EXCEPT !.dropped_time = T]
                            ELSE reqs[i]]_vars

\* C4 witness: a drop removed a request and kept one whose deadline equals
\* T + duration(1)
C4_Witness ==
    /\ pc = "fetch"
    /\ drop_reqs # <<>>
    /\ queue # <<>>
    /\ reqs[queue[1]].deadline = current_time + batch_runtimes[1]
    /\ \A i \in Range(drop_reqs) : reqs[i].dropped_time = current_time

\* C5: the four scheduling fields of a request are all unset or all set at
\* every step boundary; at the end of an iteration the members of the batch
\* have them set and the requests of future_requests and queue have them
\* unset.
C5_FieldsAllOrNone ==
    /\ \A i \in Ids : AllUnset(reqs[i]) \/ AllSet(reqs[i])
    /\ EndOfIteration =>
         /\ \A i \in Range(current_batch) : AllSet(reqs[i])
         /\ \A i \in Range(future_requests) \cup Range(queue) :
               AllUnset(reqs[i])

\* C5 witness: a request of a batch of two was preempted back to the waiting
\* container while the other one stayed in flight
C5_Witness ==
    /\ pc = "termcheck"
    /\ "preempt" \in invoked
    /\ Len(current_batch) = 1
    /\ reqs[current_batch[1]].batch_size = 2
    /\ queue # <<>>
    /\ \A i \in Range(queue) : reqs[i].arrival_time < current_time

\* C6: on a BATCH_FINISHED event at time T every member of the batch about
\* to be drained has finish_time = T, and the drain assertion never fails.
C6_DrainedAtFinishTime ==
    /\ (pc = "drain" /\ event = "batch finished") =>
          \A i \in Range(current_batch) : reqs[i].finish_time = current_time
    /\ failure # "finish_time assertion"

\* C7: at the time-advance step at least one of next_check_time,
\* batch_finish_time and the next arrival time is finite, and the deadlock
\* assertion never fails.
C7_NoDeadlock ==
    /\ pc = "advance" =>
          ~(/\ batch_finish_time = Inf
            /\ next_check_time = Inf
            /\ next_req_arrival_time = Inf)
    /\ failure # "deadlock assertion"

\* C8: current_time never decreases (the time-advance step never yields a
\* smaller time), and the loop exits only with future_requests, queue and
\* current_batch all empty.
C8_TimeMonotone ==
    /\ [][current_time' >= current_time]_vars
    /\ [](pc = "done" =>
            /\ Len(future_requests) = 0
            /\ Len(queue) = 0
            /\ Len(current_batch) = 0)

\* C8 witness: a CHECK_PREEMPTION iteration that ran at an arrival has just
\* advanced time to a next_check_time left over from an earlier schedule call
C8_Witness ==
    /\ pc = "classify"
    /\ event = "check preemption"
    /\ next_check_time # Inf
    /\ current_time = next_check_time
    /\ new_reqs # <<>>
    /\ current_time > reqs[new_reqs[1]].arrival_time
    /\ Len(current_batch) > 0

\* C9: with preemption disabled the policy's preempt is never invoked, and
\* no step of a CHECK_PREEMPTION iteration changes batch_finish_time, the
\* batch or the fields of its members.
C9_NoPreemptionWhenDisabled ==
    /\ [](~preemption => "preempt" \notin invoked)
    /\ [][(~preemption /\ event = "check preemption" /\ pc # "classify") =>
             /\ batch_finish_time' = batch_finish_time
             /\ current_batch' = current_batch
             /\ \A i \in Range(current_batch) : reqs'[i] = reqs[i]]_vars

\* C9 witness: the end of a CHECK_PREEMPTION iteration with preemption
\* disabled and a request waiting that the policy could have promoted
C9_Witness ==
    /\ ~preemption
    /\ pc = "termcheck"
    /\ event = "check preemption"
    /\ queue # <<>>
    /\ Len(current_batch) > 0

\* C10: after a schedule step at instant T that leaves a batch of size B,
\* batch_finish_time = T + duration(B) and every member has
\* queue_time = T - arrival_time >= 0, batch_size = B,
\* execution_time = duration(B) and finish_time = T + duration(B).
C10_ScheduleStamps ==
    (pc = "termcheck" /\ "schedule" \in invoked /\ Len(current_batch) > 0) =>
        LET T == current_time
            B == Len(current_batch)
            D == batch_runtimes[B]
        IN /\ batch_finish_time = T + D
           /\ \A i \in Range(current_batch) :
                /\ reqs[i].queue_time = T - reqs[i].arrival_time
                /\ reqs[i].queue_time >= 0
                /\ reqs[i].batch_size = B
                /\ reqs[i].execution_time = D
                /\ reqs[i].finish_time = T + D

\* C10 witness: profile {1: 10, 2: 15}, arrivals at 0 and 1 batched together
\* at T = 1: finish_time 16 for both, queue_time 1 for the first
C10_Witness ==
    /\ pc = "termcheck"
    /\ "schedule" \in invoked
    /\ current_time = 1
    /\ Len(current_batch) = 2
    /\ batch_runtimes[1] = 10
    /\ batch_runtimes[2] = 15
    /\ \A i \in Range(current_batch) : reqs[i].finish_time = 16
    /\ \E i, j \in Range(current_batch) :
          /\ reqs[i].arrival_time = 0
          /\ reqs[i].queue_time = 1
          /\ reqs[j].arrival_time = 1
          /\ reqs[j].queue_time = 0

\* C11: fetch_new_requests at time T moves exactly the requests of
\* future_requests with arrival_time <= T into the waiting container, leaves
\* the later ones in place and the waiting ones in their order, changes no
\* field of any request and returns the moved ids in the order moved.
C11_FetchExactlyArrived ==
    [][pc = "fetch" =>
         LET T == current_time
             arrived(i) == reqs[i].arrival_time <= T
             moved == SelectSeq(future_requests, arrived)
         IN /\ future_requests' =
                  SelectSeq(future_requests, LAMBDA i : ~arrived(i))
            /\ new_reqs' = moved
            /\ Range(queue') = Range(queue) \cup Range(moved)
            /\ Len(queue') = Len(queue) + Len(moved)
            /\ SQRemove(queue', Range(moved)) = queue
            /\ reqs' = reqs]_vars

\* C11 witness: a fetch moved a request and left a later one in place
C11_Witness ==
    /\ pc = "preempt"
    /\ new_reqs # <<>>
    /\ future_requests # <<>>
    /\ \A i \in Range(new_reqs) : reqs[i].arrival_time <= current_time
    /\ \A i \in Range(future_requests) : reqs[i].arrival_time > current_time

Dropped(r) == r.dropped_time # None /\ AllUnset(r)

Completed(r) == r.dropped_time = None /\ AllSet(r)

\* C12: every entry of the finished history is either dropped (dropped_time
\* set, stamped with the instant of the admission check, scheduling fields
\* unset) or completed (dropped_time unset, scheduling fields set, appended
\* at the instant finish_time).
C12_FinishedShapes ==
    /\ [](\A i \in Range(finished_requests) :
             (Dropped(reqs[i]) /\ ~Completed(reqs[i]))
                \/ (Completed(reqs[i]) /\ ~Dropped(reqs[i])))
    /\ [][\A k \in Len(finished_requests) + 1 .. Len(finished_requests') :
             LET i == finished_requests'[k]
             IN IF pc = "drop"
                THEN Dropped(reqs'[i]) /\ reqs'[i].dropped_time = current_time
                ELSE Completed(reqs'[i])
                        /\ reqs'[i].finish_time = current_time]_vars

\* C12 witness: request 1 (arrival 0, deadline 10) was in flight when
\* request 2 arrived at 1, was preempted back to the waiting container and
\* dropped later, with its scheduling fields unset
C12_Witness ==
    /\ MaxReqs >= 2
    /\ reqs[1].arrival_time = 0
    /\ reqs[1].deadline = batch_runtimes[1]
    /\ reqs[2].arrival_time = 1
    /\ 1 \in Range(finished_requests)
    /\ reqs[1].dropped_time > 1
    /\ AllUnset(reqs[1])

\* C14: deadline = arrival_time + slo_factor * duration(1) for every request
\* in every state, and no step changes id, arrival_time, slo_factor or
\* deadline of a request.
C14_DeadlineImmutable ==
    /\ [](\A i \in Ids :
             reqs[i].deadline * SloDen =
                reqs[i].arrival_time * SloDen
                    + reqs[i].slo_factor * batch_runtimes[1])
    /\ [][\A i \in Ids :
             /\ reqs'[i].id = reqs[i].id
             /\ reqs'[i].arrival_time = reqs[i].arrival_time
             /\ reqs'[i].slo_factor = reqs[i].slo_factor
             /\ reqs'[i].deadline = reqs[i].deadline]_vars

\* C14 witness: the run ended with a dropped and a completed request
C14_Witness ==
    /\ pc = "done"
    /\ \E i \in Ids : Dropped(reqs[i])
    /\ \E i \in Ids : Completed(reqs[i])

\* C16: schedule is invoked only on an empty batch, preempt only with
\* preemption enabled on a non-empty batch before its batch_finish_time, and
\* no iteration invokes both.
C16_EntryPointProtocol ==
    /\ [](invoked # {"schedule", "preempt"})
    /\ [][/\ ("schedule" \in invoked' /\ "schedule" \notin invoked) =>
               Len(current_batch) = 0
          /\ ("preempt" \in invoked' /\ "preempt" \notin invoked) =>
               /\ preemption
               /\ Len(current_batch) > 0
               /\ current_time < batch_finish_time]_vars

\* C16 witness: schedule was invoked right after the drain of the batch and
\* formed a new batch
C16_Witness ==
    /\ pc = "termcheck"
    /\ event = "batch finished"
    /\ invoked = {"schedule"}
    /\ Len(current_batch) > 0
    /\ finished_requests # <<>>

\* C17: a preempt call at T that changes the batch is followed by
\* batch_finish_time = T + duration(size of the batch after the call), for
\* every resulting size; a call that changes nothing leaves
\* batch_finish_time unchanged.
C17_PreemptRecomputes ==
    [][(pc = "preempt" /\ "preempt" \in invoked') =>
          IF current_batch' # current_batch
          THEN /\ failure' = "none"
               /\ Len(current_batch') \in DOMAIN batch_runtimes
               /\ batch_finish_time' =
                     current_time + batch_runtimes[Len(current_batch')]
          ELSE batch_finish_time' = batch_finish_time]_vars

\* C18: every run of the loop ends (normally or with an exception).
C18_Terminates == <>(pc \in {"done", "crashed"})

\* C19: at the termination check batch_finish_time is finite exactly when
\* the batch is non-empty, and then it is later than current_time.
C19_FinishTimeIffBatch ==
    pc = "termcheck" =>
        /\ (batch_finish_time # Inf) <=> (Len(current_batch) > 0)
        /\ Len(current_batch) > 0 => batch_finish_time > current_time

\* C19 witness: a preempt call changed the batch and its finish time was
\* recomputed
C19_Witness ==
    /\ pc = "termcheck"
    /\ "preempt" \in invoked
    /\ Len(current_batch) > 0
    /\ current_time > 0
    /\ batch_finish_time = current_time + batch_runtimes[Len(current_batch)]

\* C20: at the start of an iteration current_time is at most
\* batch_finish_time and at most the arrival time of every request not yet
\* arrived; a request passes the arrival gate at its arrival_time and a
\* batch is drained at its batch_finish_time.
C20_NoEventSkipped ==
    /\ [](pc = "classify" =>
            /\ current_time <= batch_finish_time
            /\ \A i \in Range(future_requests) :
                  current_time <= reqs[i].arrival_time)
    /\ [][/\ pc = "fetch" =>
               \A i \in Range(new_reqs') :
                   reqs[i].arrival_time = current_time
          /\ (pc = "drain" /\ current_batch' # current_batch) =>
               current_time = batch_finish_time]_vars

\* C20 witness: an iteration starts at the arrival time of the next request
\* while a batch is in flight
C20_Witness ==
    /\ pc = "classify"
    /\ Len(current_batch) > 0
    /\ future_requests # <<>>
    /\ current_time = reqs[future_requests[1]].arrival_time
    /\ current_time > 0
    /\ current_time < batch_finish_time

InLoop ==
    pc \in {"classify", "drop", "fetch", "preempt", "drain", "schedule",
            "termcheck", "advance", "done", "crashed"}

\* C13: in offline mode every request has arrival_time 0, one arrival-gate
\* call moves all of them to the waiting container before offline_schedule
\* is invoked, no admission drop and no loop step runs, and the run ends
\* with every request exactly once in the finished history and without the
\* deadlock assertion.
C13_OfflineRun ==
    args.offline_num_reqs > 0 =>
        /\ ~InLoop
        /\ drop_reqs = <<>>
        /\ failure # "deadlock assertion"
        /\ pc \in {"offline_fetch", "offline_schedule", "offline_done"} =>
              \A i \in Ids : reqs[i].arrival_time = 0
        /\ pc = "offline_schedule" =>
              /\ future_requests = <<>>
              /\ Len(queue) = MaxReqs
              /\ finished_requests = <<>>
              /\ invoked = {}
        /\ pc = "offline_done" =>
              /\ invoked = {"offline_schedule"}
              /\ Len(finished_requests) = MaxReqs
              /\ \A i \in Ids : Count(finished_requests, i) = 1
              /\ failure = "none"

\* C13 witness: an offline run ended with all requests in the finished
\* history, run in more than one batch
C13_Witness ==
    /\ pc = "offline_done"
    /\ Len(finished_requests) = MaxReqs
    /\ \A i \in Ids : Completed(reqs[i])
    /\ \E i, j \in Ids : reqs[i].finish_time # reqs[j].finish_time

\* C15: the event loop starts only with a positive args.slo_factor, a
\* positive args.max_batch_size and a positive slo_factor of every request,
\* and no profile lookup inside the loop hits a missing entry.
C15_ConfigErrorsStopRun ==
    InLoop =>
        /\ args.slo_factor > 0
        /\ args.max_batch_size > 0
        /\ \A i \in Ids : reqs[i].slo_factor > 0
        /\ failure # "KeyError"
====
